---- MODULE Spec2Model ----
(***************************************************************************)
(* Authentication and session lifecycle of andrescris/firestore:           *)
(* password login, OTP login, session validation / refresh / revocation    *)
(* and the Firestore document primitives they are built on.                *)
(*                                                                         *)
(* Every exported operation is run by a caller (a member of Procs).  An    *)
(* operation is cut at its calls to the Document Store and the Directory:  *)
(* each such call is one atomic step, so two callers interleave exactly    *)
(* where two goroutines of the program can.  Every call to the store or    *)
(* the directory may fail (ok = FALSE).                                    *)
(***************************************************************************)
EXTENDS Integers, Sequences, FiniteSets, TLC

\* ---------------------------------------------------------------- bounds
MaxTime == 2
MaxSessions == 2
MaxOtps == 2
MaxDocs == 2

\* Lifetimes, in clock ticks: a tick of the clock is as long as the
\* lifetime, so that a record is met before, at and after its expiry.  Only
\* the comparisons of the clock with the stored expiry times matter.
SessionTTL == 1
OtpTTL == 1

Procs == {"p1", "p2"}
Uids == {"u1", "u2"}
Emails == {"a@x.com", "b@x.com", "nobody@x.com"}
Passwords == {"pw1", "pw2"}
Codes == {"042817", "000000"}
DirClaims == {"none", "admin"}
SessionIds == 1..MaxSessions
OtpIds == 1..MaxOtps

NoUser == ""
NoSid == 0
NoToken == [uid |-> "", claims |-> "none"]
DefaultClaims == "user"

VARIABLES now, dir, db, pr, ret, consumed, fb

vars == <<now, dir, db, pr, ret, consumed, fb>>

\* ------------------------------------------------------------- Directory

\* The identities of the Directory: uid, email, disabled flag, custom claims.
EmailOf(u) == IF u = "u1" THEN "a@x.com" ELSE "b@x.com"

\* auth.GetUserByEmail: any failure of the client is returned as an error.
GetUserByEmail(email, ok) ==
    IF ~ok THEN [uid |-> NoUser, err |-> "unavailable"]
    ELSE IF \E u \in Uids : EmailOf(u) = email
         THEN [uid |-> CHOOSE u \in Uids : EmailOf(u) = email, err |-> ""]
         ELSE [uid |-> NoUser, err |-> "user-not-found"]

\* auth.GetUser
GetUser(uid, ok) ==
    IF ~ok THEN [uid |-> NoUser, err |-> "unavailable"]
    ELSE IF uid \in Uids THEN [uid |-> uid, err |-> ""]
         ELSE [uid |-> NoUser, err |-> "user-not-found"]

\* auth.CreateCustomToken: a token bound to the uid and the claims given.
CreateCustomToken(uid, claims, ok) ==
    IF ok THEN [token |-> [uid |-> uid, claims |-> claims], err |-> ""]
    ELSE [token |-> NoToken, err |-> "unavailable"]

\* -------------------------------------------------------- Document Store
\* db[c] maps the ids of the documents of collection c to the documents; a
\* document maps its field names to their values.

Collections == {"user_sessions", "user_otps", "user_credentials",
                "user_claims", "user_activity", "analytics", "archive"}

Merge(old, upd) ==
    [f \in DOMAIN old \cup DOMAIN upd |->
        IF f \in DOMAIN upd THEN upd[f] ELSE old[f]]

\* The value of a timestamp that the program writes and never reads
\* (updated_at, ended_at, last_login, last_logout): only its presence is kept.
Stamp(t) == "stamp"

\* firestore.CreateDocument / CreateDocumentWithID: stamps both timestamps
\* and sets the whole document.
CreateDocument(store, c, id, data, t) ==
    [store EXCEPT ![c] =
        (id :> Merge(data, [created_at |-> t, updated_at |-> Stamp(t)])) @@ @]

\* A store that gives a new document the smallest id, in use or not.
NewDocReused(store, c, ids) ==
    {id \in ids : \A other \in ids : id <= other}

\* The id the store gives a new document of a collection: one that is free
\* (none when the ids of the model are used up).
NewDoc(store, c, ids) ==
    {id \in ids \ DOMAIN store[c] :
        \A other \in ids \ DOMAIN store[c] : id <= other}
\* The failure of a read of a missing document: it names the collection and
\* the id (the message of line 54 around the NotFound of the client, or the
\* DocumentNotFoundError of line 58).
NotFound(c, id) == "not-found: " \o c \o "/" \o ToString(id)

\* A read whose not-found failure says nothing of the document.
GetDocumentPlain(store, c, id, ok) ==
    IF ~ok THEN [found |-> FALSE, err |-> "unavailable"]
    ELSE IF id \in DOMAIN store[c] THEN [found |-> TRUE, err |-> ""]
         ELSE [found |-> FALSE, err |-> "not-found"]

\* firestore.GetDocument: the client's Get reports a missing document as an
\* error, like any other failure.
GetDocument(store, c, id, ok) ==
    IF ~ok THEN [found |-> FALSE, err |-> "unavailable"]
    ELSE IF id \in DOMAIN store[c] THEN [found |-> TRUE, err |-> ""]
         ELSE [found |-> FALSE, err |-> NotFound(c, id)]

\* A Set without MergeAll: the document becomes the data given.
UpdateDocumentOverwrite(store, c, id, data, t) ==
    [store EXCEPT ![c] = (id :> Merge(data, [updated_at |-> Stamp(t)])) @@ @]

\* firestore.UpdateDocument: Set with MergeAll; it stamps updated_at, keeps
\* the fields it is not given and creates the document when there is none.
UpdateDocument(store, c, id, data, t) ==
    LET upd == Merge(data, [updated_at |-> Stamp(t)])
        old == IF id \in DOMAIN store[c] THEN store[c][id] ELSE <<>>
    IN [store EXCEPT ![c] = (id :> Merge(old, upd)) @@ @]

\* One equality filter of firestore.QueryDocuments.
Matches(doc, flt) ==
    \A f \in DOMAIN flt : f \in DOMAIN doc /\ doc[f] = flt[f]

\* firestore.QueryDocuments with equality filters: the ids that match.
QueryDocuments(store, c, flt) ==
    {id \in DOMAIN store[c] : Matches(store[c][id], flt)}

\* ----------------------------------------------------- callers' state

NoSession ==
    [SessionID |-> NoSid, UID |-> "", Email |-> "", Active |-> FALSE,
     CreatedAt |-> 0, ExpiresAt |-> 0]

\* The local variables of a caller inside an operation.
Blank ==
    [pc |-> "idle", op |-> "none", email |-> "", secret |-> "", uid |-> "",
     sid |-> NoSid, err |-> "", valid |-> FALSE, claims |-> "none",
     token |-> NoToken, expiresAt |-> 0, session |-> NoSession,
     at |-> 0, matched |-> {}, otp |-> 0, late |-> FALSE]

\* What the last operation of a caller returned: the response or session
\* (kind), the error (err), and beside them what the operation was and what
\* it had seen when it returned (op, arg, from, cause, read, at, late), kept
\* for the properties: from is the step it returned from, cause the last
\* error it was given, read the session record it read, at the time it read
\* the clock, late whether an earlier call had already done what this one
\* asks (consumed its email and code, made its session inactive).
NoRet ==
    [kind |-> "none", success |-> FALSE, msg |-> "", user |-> NoUser,
     token |-> NoToken, sid |-> NoSid, expires |-> 0, claims |-> "none",
     session |-> NoSession, err |-> "",
     op |-> "none", arg |-> <<>>, from |-> "", cause |-> "",
     read |-> NoSession, at |-> 0, late |-> FALSE, otp |-> 0,
     batch |-> <<>>]

\* return nil, fmt.Errorf(...)
Failed(e) ==
    [NoRet EXCEPT !.kind = "error", !.err = e]

\* A rejection returned as an error and no response.
RejectedAsError(msg) == Failed(msg)

\* return &LoginResponse{Success: false, Message: msg}, nil
Rejected(msg) ==
    [NoRet EXCEPT !.kind = "LoginResponse", !.msg = msg]

\* auth.HashPassword and bcrypt.CompareHashAndPassword: a hash matches the
\* password it was made from and no other.
HashPassword(password) == <<"bcrypt", password>>

CompareHashAndPassword(hash, password) == hash = HashPassword(password)

\* auth.StoreUserCredentials
StoreUserCredentials(store, uid, password, t) ==
    CreateDocument(store, "user_credentials", uid,
                   [password_hash |-> HashPassword(password)], t)

\* The password each identity was set up with.
PasswordOf(u) == IF u = "u1" THEN "pw1" ELSE "pw2"

\* client.go, lines 18-25: the package variables.  once is the state of the
\* sync.Once, app, firestoreClient and authClient tell whether the pointer is
\* set, initErr is the error ("" for nil); runs counts the times the body of
\* the once.Do has been entered.
NotInitialised ==
    [once |-> "new", app |-> FALSE, firestoreClient |-> FALSE,
     authClient |-> FALSE, initErr |-> "", runs |-> 0]

\* The package variables after an InitFirebaseFromEnv that succeeded.
Initialised ==
    [once |-> "done", app |-> TRUE, firestoreClient |-> TRUE,
     authClient |-> TRUE, initErr |-> "", runs |-> 1]

\* The stores are empty but for the credentials of the two identities,
\* stored at set-up by StoreUserCredentials.
Init ==
    /\ now = 0
    /\ dir = [u \in Uids |-> [disabled |-> FALSE, claims |-> "none"]]
    /\ db = StoreUserCredentials(
                StoreUserCredentials([c \in Collections |-> <<>>],
                                     "u1", PasswordOf("u1"), 0),
                "u2", PasswordOf("u2"), 0)
    /\ pr = [p \in Procs |-> Blank]
    /\ ret = [p \in Procs |-> NoRet]
    /\ consumed = [i \in OtpIds |-> 0]
    /\ fb = Initialised

\* The program at its start, before its first InitFirebaseFromEnv.
InitBoot ==
    /\ now = 0
    /\ dir = [u \in Uids |-> [disabled |-> FALSE, claims |-> "none"]]
    /\ db = StoreUserCredentials(
                StoreUserCredentials([c \in Collections |-> <<>>],
                                     "u1", PasswordOf("u1"), 0),
                "u2", PasswordOf("u2"), 0)
    /\ pr = [p \in Procs |-> Blank]
    /\ ret = [p \in Procs |-> NoRet]
    /\ consumed = [i \in OtpIds |-> 0]
    /\ fb = NotInitialised

\* The caller p returns r: its locals are gone; what it was asked and the
\* last error it saw are kept with r.
Return(p, locals, r) ==
    /\ pr' = [pr EXCEPT ![p] = Blank]
    /\ ret' = [ret EXCEPT ![p] =
                [r EXCEPT !.op = locals.op,
                          !.arg = <<locals.email, locals.secret, locals.sid>>,
                          !.from = locals.pc,
                          !.cause = locals.err,
                          !.read = locals.session,
                          !.at = locals.at,
                          !.late = locals.late,
                          !.otp = locals.otp]]

Goto(p, locals, label) ==
    /\ pr' = [pr EXCEPT ![p] = [locals EXCEPT !.pc = label]]
    /\ ret' = [ret EXCEPT ![p] = NoRet]

\* ------------------------------------------------------------- the clock
Tick ==
    /\ now < MaxTime
    /\ now' = now + 1
    /\ UNCHANGED <<dir, db, pr, ret, consumed, fb>>

\* ------------------------------------------------- Directory management
\* auth.SetCustomClaims
SetCustomClaims(uid, claims) ==
    /\ dir[uid].claims # claims
    /\ dir' = [dir EXCEPT ![uid].claims = claims]
    /\ UNCHANGED <<now, db, pr, ret, consumed, fb>>

\* auth.DisableUser
DisableUser(uid) ==
    /\ ~dir[uid].disabled
    /\ dir' = [dir EXCEPT ![uid].disabled = TRUE]
    /\ UNCHANGED <<now, db, pr, ret, consumed, fb>>

\* The claims documents a deployment keeps for its users: with a claims
\* mapping, or without one.
ClaimsDocs == {[claims |-> "admin"], [claims |-> "editor"],
               [plan |-> "premium"]}

\* The claims document of a user is set with firestore.CreateDocumentWithID;
\* getUserClaims reads it.
StoreUserClaims(uid, data) ==
    /\ db' = CreateDocument(db, "user_claims", uid, data, now)
    /\ db' # db
    /\ UNCHANGED <<now, dir, pr, ret, consumed, fb>>

\* ------------------------------------------------------- password login

\* A verification that takes any password for a user with credentials.
verifyPasswordAny(store, uid, password, ok) ==
    LET got == GetDocument(store, "user_credentials", uid, ok)
    IN IF ~got.found THEN [valid |-> FALSE, err |-> got.err]
       ELSE [valid |-> TRUE, err |-> ""]

\* verifyPassword: the credentials document of the uid, then bcrypt.
verifyPassword(store, uid, password, ok) ==
    LET got == GetDocument(store, "user_credentials", uid, ok)
    IN IF ~got.found THEN [valid |-> FALSE, err |-> got.err]
       ELSE IF "password_hash" \notin DOMAIN store["user_credentials"][uid]
            THEN [valid |-> FALSE, err |-> "password hash not found"]
            ELSE [valid |->
                    CompareHashAndPassword(
                        store["user_credentials"][uid].password_hash, password),
                  err |-> ""]

\* getUserClaims: the claims document of the uid in the store.
getUserClaims(store, uid, ok) ==
    LET got == GetDocument(store, "user_claims", uid, ok)
    IN IF ~got.found THEN [claims |-> "none", err |-> got.err]
       ELSE IF "claims" \notin DOMAIN store["user_claims"][uid]
            THEN [claims |-> DefaultClaims, err |-> ""]
            ELSE [claims |-> store["user_claims"][uid].claims, err |-> ""]

\* Login, lines 85-92: any error of getUserClaims gives the basic claims.
ClaimsOrDefault(got) == IF got.err # "" THEN DefaultClaims ELSE got.claims

\* The session document createSession writes.
SessionData(uid, email, expiresAt) ==
    [uid |-> uid, email |-> email, active |-> TRUE, expires_at |-> expiresAt,
     metadata |-> "unknown"]

\* The message of Login for an email that resolves to no identity.
MsgUserNotFound == "Usuario no encontrado o credenciales invalidas"

\* The message of Login for a password that does not match.
MsgInvalidCredentials == "Credenciales invalidas"

\* The message of Login for a disabled identity.
MsgDisabled == "Cuenta desactivada. Contacta al administrador"

\* Login, steps 1 and 2: resolve the identity, refuse a disabled one.
LoginGetUser(p, email, password) ==
    /\ pr[p].pc = "idle"
    /\ \E ok \in BOOLEAN :
        LET got == GetUserByEmail(email, ok)
            loc == [Blank EXCEPT !.op = "Login", !.email = email,
                                 !.secret = password, !.uid = got.uid,
                                 !.err = got.err]
        IN IF got.err # "" THEN Return(p, loc, Rejected(MsgUserNotFound))
           ELSE IF dir[got.uid].disabled
                THEN Return(p, loc, Rejected(MsgDisabled))
                ELSE Goto(p, loc, "verifyPassword")
    /\ UNCHANGED <<now, dir, db, consumed, fb>>

\* Login, step 3.
LoginVerifyPassword(p) ==
    /\ pr[p].pc = "verifyPassword"
    /\ \E ok \in BOOLEAN :
        LET got == verifyPassword(db, pr[p].uid, pr[p].secret, ok)
            loc == [pr[p] EXCEPT !.valid = got.valid, !.err = got.err]
        IN IF got.err # ""
           THEN Return(p, loc, Failed("error verifying password"))
           ELSE IF ~got.valid
                THEN Return(p, loc, Rejected(MsgInvalidCredentials))
                ELSE Goto(p, loc, "getUserClaims")
    /\ UNCHANGED <<now, dir, db, consumed, fb>>

\* Login, step 4 (and the same step of the OTP login).
LoginGetClaims(p) ==
    /\ pr[p].pc = "getUserClaims"
    /\ \E ok \in BOOLEAN :
        LET got == getUserClaims(db, pr[p].uid, ok)
        IN Goto(p, [pr[p] EXCEPT !.claims = ClaimsOrDefault(got),
                                 !.err = got.err],
                "createCustomToken")
    /\ UNCHANGED <<now, dir, db, consumed, fb>>

\* Login, step 5.
LoginCreateToken(p) ==
    /\ pr[p].pc = "createCustomToken"
    /\ \E ok \in BOOLEAN :
        LET got == CreateCustomToken(pr[p].uid, pr[p].claims, ok)
            loc == [pr[p] EXCEPT !.token = got.token, !.err = got.err]
        IN IF got.err # ""
           THEN Return(p, loc, Failed("error creating custom token"))
           ELSE Goto(p, loc, "createSession")
    /\ UNCHANGED <<now, dir, db, consumed, fb>>

\* Login, step 6: createSession adds a document under an id of the store's.
LoginCreateSession(p) ==
    /\ pr[p].pc = "createSession"
    /\ \/ /\ Return(p, [pr[p] EXCEPT !.err = "unavailable"],
                    Failed("error creating session"))
          /\ db' = db
       \/ \E id \in NewDoc(db, "user_sessions", SessionIds) :
            /\ db' = CreateDocument(db, "user_sessions", id,
                        SessionData(pr[p].uid, pr[p].email, now + SessionTTL),
                        now)
            /\ Goto(p, [pr[p] EXCEPT !.sid = id, !.err = "",
                                     !.expiresAt = now + SessionTTL],
                    "updateLastLogin")
    /\ UNCHANGED <<now, dir, consumed, fb>>

\* updateLastLogin: firebase.IncrementValue(1) is the integer 1 under another
\* type, so the merge stores login_count = 1.
LastLoginData(t) == [last_login |-> Stamp(t), login_count |-> 1]

\* A response that gives the minimal claims whatever the token holds.
LoginSucceededBasicClaims(loc) ==
    [NoRet EXCEPT !.kind = "LoginResponse", !.success = TRUE,
                  !.msg = "Login exitoso", !.user = loc.uid,
                  !.token = loc.token, !.sid = loc.sid,
                  !.expires = loc.expiresAt, !.claims = DefaultClaims]

\* The response of a successful login.
LoginSucceeded(loc) ==
    [NoRet EXCEPT !.kind = "LoginResponse", !.success = TRUE,
                  !.msg = "Login exitoso", !.user = loc.uid,
                  !.token = loc.token, !.sid = loc.sid,
                  !.expires = loc.expiresAt, !.claims = loc.claims]

\* A login that returns the failure of the update of the last login.
LoginUpdateLastLoginStrict(p) ==
    /\ pr[p].pc = "updateLastLogin"
    /\ \E ok \in BOOLEAN :
        /\ db' = IF ok
                 THEN UpdateDocument(db, "user_activity", pr[p].uid,
                                     LastLoginData(now), now)
                 ELSE db
        /\ Return(p, [pr[p] EXCEPT !.err = IF ok THEN "" ELSE "unavailable"],
                  IF ok THEN LoginSucceeded(pr[p])
                  ELSE Failed("error updating last login"))
    /\ UNCHANGED <<now, dir, consumed, fb>>

\* Login, step 7: the update of the last login; its failure is only printed.
LoginUpdateLastLogin(p) ==
    /\ pr[p].pc = "updateLastLogin"
    /\ \E ok \in BOOLEAN :
        /\ db' = IF ok
                 THEN UpdateDocument(db, "user_activity", pr[p].uid,
                                     LastLoginData(now), now)
                 ELSE db
        /\ Return(p, [pr[p] EXCEPT !.err = IF ok THEN "" ELSE "unavailable"],
                  LoginSucceeded(pr[p]))
    /\ UNCHANGED <<now, dir, consumed, fb>>

\* Login, steps 1 to 3.
Login(p, emails, passwords) ==
    \/ \E e \in emails, pw \in passwords : LoginGetUser(p, e, pw)
    \/ LoginVerifyPassword(p)

\* Login, steps 4 to 7, which the OTP login shares.
IssueSession(p) ==
    \/ LoginGetClaims(p)
    \/ LoginCreateToken(p)
    \/ LoginCreateSession(p)
    \/ LoginUpdateLastLogin(p)

\* ------------------------------------------------------------- sessions

SessionFields == {"uid", "email", "active", "created_at", "expires_at"}

\* getSession: the document, then the type assertions on its fields; an
\* assertion on a field the document lacks panics.
getSession(store, sid, ok) ==
    LET got == GetDocument(store, "user_sessions", sid, ok)
    IN IF ~got.found THEN [session |-> NoSession, err |-> got.err]
       ELSE LET doc == store["user_sessions"][sid]
            IN IF ~(SessionFields \subseteq DOMAIN doc)
               THEN [session |-> NoSession, err |-> "panic"]
               ELSE [session |->
                        [SessionID |-> sid, UID |-> doc.uid,
                         Email |-> doc.email, Active |-> doc.active,
                         CreatedAt |-> doc.created_at,
                         ExpiresAt |-> doc.expires_at],
                     err |-> ""]

\* The comparison turned round: time.Now().Before(session.ExpiresAt).
ExpiredBefore(t, expiresAt) == t < expiresAt

\* A session taken as expired from the very expiry time on.
ExpiredAtOrAfter(t, expiresAt) == t >= expiresAt

\* time.Now().After(session.ExpiresAt)
Expired(t, expiresAt) == t > expiresAt

\* The session is on record as inactive.
Inactive(store, sid) ==
    /\ sid \in DOMAIN store["user_sessions"]
    /\ "active" \in DOMAIN store["user_sessions"][sid]
    /\ ~store["user_sessions"][sid].active

\* An invalidation that flips the flag of the session.
invalidateSessionFlip(store, sid, t) ==
    UpdateDocument(store, "user_sessions", sid,
                   [active |-> Inactive(store, sid), ended_at |-> Stamp(t)], t)

\* invalidateSession
invalidateSession(store, sid, t) ==
    UpdateDocument(store, "user_sessions", sid,
                   [active |-> FALSE, ended_at |-> Stamp(t)], t)

\* An update of the expiry that writes the session back as active.
updateSessionExpirationActive(store, sid, expiresAt, t) ==
    UpdateDocument(store, "user_sessions", sid,
                   [expires_at |-> expiresAt, active |-> TRUE], t)

\* An update of the expiry that never reaches the store.
updateSessionExpirationDropped(store, sid, expiresAt, t) == store

\* updateSessionExpiration
updateSessionExpiration(store, sid, expiresAt, t) ==
    UpdateDocument(store, "user_sessions", sid, [expires_at |-> expiresAt], t)

\* A session returned with the claims the Directory holds for its user.
SessionReturnedWithClaims(session) ==
    [NoRet EXCEPT !.kind = "SessionInfo", !.session = session,
                  !.claims = dir[session.UID].claims]

\* return session, nil
SessionReturned(session) ==
    [NoRet EXCEPT !.kind = "SessionInfo", !.session = session]

\* A panic of the calling goroutine.
Panicked == [NoRet EXCEPT !.kind = "panic"]

\* ValidateSession, line 155 (op is ValidateSession, or RefreshSession which
\* begins with it).
SessionGet(p, op, sid) ==
    /\ pr[p].pc = "idle"
    /\ \E ok \in BOOLEAN :
        LET got == getSession(db, sid, ok)
            loc == [Blank EXCEPT !.op = op, !.sid = sid,
                                 !.session = got.session, !.err = got.err]
        IN IF got.err = "panic" THEN Return(p, loc, Panicked)
           ELSE IF got.err # "" THEN Return(p, loc, Failed(got.err))
                ELSE Goto(p, loc, "checkExpiry")
    /\ UNCHANGED <<now, dir, db, consumed, fb>>

\* ValidateSession, lines 160-172: the clock is read here.
SessionCheck(p) ==
    /\ pr[p].pc = "checkExpiry"
    /\ LET loc == [pr[p] EXCEPT !.at = now]
       IN IF Expired(now, pr[p].session.ExpiresAt)
          THEN Goto(p, loc, "invalidateExpired")
          ELSE IF ~pr[p].session.Active
               THEN Return(p, loc, Failed("session inactive"))
               ELSE IF pr[p].op = "ValidateSession"
                    THEN Return(p, loc, SessionReturned(pr[p].session))
                    ELSE Goto(p, loc, "newExpiresAt")
    /\ UNCHANGED <<now, dir, db, consumed, fb>>

\* ValidateSession, lines 163-164: the error of invalidateSession is dropped.
SessionInvalidateExpired(p) ==
    /\ pr[p].pc = "invalidateExpired"
    /\ \E ok \in BOOLEAN :
        /\ db' = IF ok THEN invalidateSession(db, pr[p].sid, now) ELSE db
        /\ Return(p, [pr[p] EXCEPT !.err = IF ok THEN "" ELSE "unavailable"],
                  Failed("session expired"))
    /\ UNCHANGED <<now, dir, consumed, fb>>

\* RefreshSession, line 183: the clock is read again.
RefreshNewExpiresAt(p) ==
    /\ pr[p].pc = "newExpiresAt"
    /\ Goto(p, [pr[p] EXCEPT !.expiresAt = now + SessionTTL],
            "updateSessionExpiration")
    /\ UNCHANGED <<now, dir, db, consumed, fb>>

\* RefreshSession, lines 185-191.
RefreshUpdate(p) ==
    /\ pr[p].pc = "updateSessionExpiration"
    /\ \E ok \in BOOLEAN :
        IF ok
        THEN /\ db' = updateSessionExpiration(db, pr[p].sid, pr[p].expiresAt,
                                              now)
             /\ Return(p, pr[p],
                       SessionReturned([pr[p].session EXCEPT
                                           !.ExpiresAt = pr[p].expiresAt]))
        ELSE /\ db' = db
             /\ Return(p, [pr[p] EXCEPT !.err = "unavailable"],
                       Failed("error refreshing session"))
    /\ UNCHANGED <<now, dir, consumed, fb>>

\* ValidateSession, called by itself.
ValidateSessionOf(p, sids) ==
    \E sid \in sids : SessionGet(p, "ValidateSession", sid)

ValidateSession(p) == ValidateSessionOf(p, SessionIds)

\* ValidateSession after its read, by itself or as line 178 of RefreshSession.
CheckSession(p) ==
    \/ SessionCheck(p)
    \/ SessionInvalidateExpired(p)

\* RefreshSession, for a request naming one of sids.
RefreshSessionOf(p, sids) ==
    \/ \E sid \in sids : SessionGet(p, "RefreshSession", sid)
    \/ RefreshNewExpiresAt(p)
    \/ RefreshUpdate(p)

RefreshSession(p) == RefreshSessionOf(p, SessionIds)

\* --------------------------------------------------------------- batches

\* The ids of a set, in increasing order.
RECURSIVE Ordered(_)
Ordered(ids) ==
    IF ids = {} THEN <<>>
    ELSE LET m == CHOOSE x \in ids : \A y \in ids : x <= y
         IN <<m>> \o Ordered(ids \ {m})

\* The document a create of a batch sets: NewDoc() when DocumentID is empty
\* (lines 240-243), the smallest free id in the model.
BatchDocRef(store, op) ==
    IF op.DocumentID # NoSid THEN op.DocumentID
    ELSE CHOOSE id \in NewDoc(store, op.Collection,
                1..(Cardinality(DOMAIN store[op.Collection]) + 1)) : TRUE

\* What a committed batch does to the store, operation by operation.
RECURSIVE ApplyBatch(_, _, _)
ApplyBatch(store, ops, t) ==
    IF ops = <<>> THEN store
    ELSE LET op == Head(ops)
             next ==
                 CASE op.Type = "create" ->
                        CreateDocument(store, op.Collection,
                                       BatchDocRef(store, op), op.Data, t)
                   [] op.Type = "update" ->
                        UpdateDocument(store, op.Collection, op.DocumentID,
                                       op.Data, t)
                   [] OTHER ->
                        [store EXCEPT ![op.Collection] =
                            [id \in DOMAIN @ \ {op.DocumentID} |-> @[id]]]
         IN ApplyBatch(next, Tail(ops), t)

BatchTypes == {"create", "update", "delete"}

\* A batch whose failed commit has applied its first operation.
BatchWritePartial(store, ops, ok, t) ==
    IF ok THEN [store |-> ApplyBatch(store, ops, t), err |-> ""]
    ELSE [store |-> ApplyBatch(store, SubSeq(ops, 1, 1), t),
          err |-> "failed to commit batch operations"]

\* A batch that passes over the operations of another type and commits the
\* others.
BatchSupported(op) == op.Type \in {"create", "update", "delete"}

BatchWriteSkipping(store, ops, ok, t) ==
    IF ~ok
    THEN [store |-> store, err |-> "failed to commit batch operations"]
    ELSE [store |-> ApplyBatch(store, SelectSeq(ops, BatchSupported), t),
          err |-> ""]

\* A batch that writes each operation as it meets it, so that the ones before
\* an operation of another type are applied.
BatchWriteEager(store, ops, ok, t) ==
    IF \E i \in 1..Len(ops) : ops[i].Type \notin BatchTypes
    THEN LET bad == CHOOSE i \in 1..Len(ops) :
                        /\ ops[i].Type \notin BatchTypes
                        /\ \A j \in 1..(i - 1) : ops[j].Type \in BatchTypes
         IN [store |-> ApplyBatch(store, SubSeq(ops, 1, bad - 1), t),
             err |-> "unsupported batch operation type"]
    ELSE IF ~ok
         THEN [store |-> store, err |-> "failed to commit batch operations"]
         ELSE [store |-> ApplyBatch(store, ops, t), err |-> ""]

\* firestore.BatchWrite: an operation of another type returns before the
\* commit; the commit applies every operation or none.
BatchWrite(store, ops, ok, t) ==
    IF \E i \in 1..Len(ops) : ops[i].Type \notin BatchTypes
    THEN [store |-> store, err |-> "unsupported batch operation type"]
    ELSE IF ~ok
         THEN [store |-> store, err |-> "failed to commit batch operations"]
         ELSE [store |-> ApplyBatch(store, ops, t), err |-> ""]

\* The operations a caller composes: creates, updates and deletes of
\* analytics records, a create in the collection "archive", which holds no
\* document until then, and an operation of the type "archive".
BatchData == [event |-> "profile_completed"]

BatchOps ==
    {[Type |-> "create", Collection |-> "analytics", DocumentID |-> NoSid,
      Data |-> BatchData],
     [Type |-> "update", Collection |-> "analytics", DocumentID |-> 1,
      Data |-> [analytics_count |-> 2]],
     [Type |-> "delete", Collection |-> "analytics", DocumentID |-> 1,
      Data |-> <<>>],
     [Type |-> "create", Collection |-> "archive", DocumentID |-> NoSid,
      Data |-> BatchData],
     [Type |-> "archive", Collection |-> "analytics", DocumentID |-> 1,
      Data |-> BatchData]}

\* return nil / return fmt.Errorf(...) of a function that returns an error
\* only.
Done(e) ==
    [NoRet EXCEPT !.kind = IF e = "" THEN "nil" ELSE "error", !.err = e]

\* A caller commits a batch of three operations with firestore.BatchWrite.
WriteBatch(p) ==
    /\ pr[p].pc = "idle"
    /\ \E ops \in [1..3 -> BatchOps], ok \in BOOLEAN :
        LET res == BatchWrite(db, ops, ok, now)
        IN /\ \A c \in {"analytics", "archive"} :
                    Cardinality(DOMAIN res.store[c]) <= MaxDocs
           /\ db' = res.store
           /\ ret' = [ret EXCEPT ![p] =
                        [Done(res.err) EXCEPT !.op = "BatchWrite",
                                              !.from = "idle",
                                              !.cause = res.err,
                                              !.batch = ops]]
    /\ UNCHANGED <<now, dir, pr, consumed, fb>>

\* ---------------------------------------------------------------- logout

\* Every session of the uid, active or not.
AllSessionsOf(store, uid) ==
    QueryDocuments(store, "user_sessions", [uid |-> uid])

\* invalidateAllUserSessions, lines 286-291: the active sessions of the uid.
ActiveSessionsOf(store, uid) ==
    QueryDocuments(store, "user_sessions", [uid |-> uid, active |-> TRUE])

\* invalidateAllUserSessions, lines 297-308: one update per session found.
InvalidateOps(ids, t) ==
    [i \in 1..Len(Ordered(ids)) |->
        [Type |-> "update", Collection |-> "user_sessions",
         DocumentID |-> Ordered(ids)[i],
         Data |-> [active |-> FALSE, ended_at |-> Stamp(t)]]]

\* return &LogoutResponse{Success: true, Message: "Logout exitoso"}, nil
LogoutSucceeded ==
    [NoRet EXCEPT !.kind = "LogoutResponse", !.success = TRUE,
                  !.msg = "Logout exitoso"]

\* Logout, step 1: the session named in the request, if one is named.
LogoutInvalidate(p, uid, sid) ==
    /\ pr[p].pc = "idle"
    /\ LET loc == [Blank EXCEPT !.op = "Logout", !.uid = uid, !.sid = sid,
                                !.late = Inactive(db, sid)]
       IN IF sid = NoSid
          THEN /\ db' = db
               /\ Goto(p, loc, "invalidateAll")
          ELSE \E ok \in BOOLEAN :
                 IF ok
                 THEN /\ db' = invalidateSession(db, sid, now)
                      /\ Goto(p, loc, "invalidateAll")
                 ELSE /\ db' = db
                      /\ Return(p, [loc EXCEPT !.err = "unavailable"],
                                Failed("error invalidating session"))
    /\ UNCHANGED <<now, dir, consumed, fb>>

\* Logout, step 2, invalidateAllUserSessions: the query.
LogoutQuery(p) ==
    /\ pr[p].pc = "invalidateAll"
    /\ \E ok \in BOOLEAN :
        IF ok
        THEN LET found == ActiveSessionsOf(db, pr[p].uid)
             IN Goto(p, [pr[p] EXCEPT !.matched = found],
                     IF found = {} THEN "updateLastLogout" ELSE "batchWrite")
        ELSE Return(p, [pr[p] EXCEPT !.err = "unavailable"],
                    Failed("error invalidating user sessions"))
    /\ UNCHANGED <<now, dir, db, consumed, fb>>

\* Logout, step 2, invalidateAllUserSessions: the batch.
LogoutBatch(p) ==
    /\ pr[p].pc = "batchWrite"
    /\ \E ok \in BOOLEAN :
        LET res == BatchWrite(db, InvalidateOps(pr[p].matched, now), ok, now)
        IN /\ db' = res.store
           /\ IF res.err # ""
              THEN Return(p, [pr[p] EXCEPT !.err = res.err],
                          Failed("error invalidating user sessions"))
              ELSE Goto(p, pr[p], "updateLastLogout")
    /\ UNCHANGED <<now, dir, consumed, fb>>

\* Logout, step 3: updateLastLogout; its failure is only printed.
LogoutUpdateLastLogout(p) ==
    /\ pr[p].pc = "updateLastLogout"
    /\ \E ok \in BOOLEAN :
        /\ db' = IF ok
                 THEN UpdateDocument(db, "user_activity", pr[p].uid,
                                     [last_logout |-> Stamp(now)], now)
                 ELSE db
        /\ Return(p, [pr[p] EXCEPT !.err = IF ok THEN "" ELSE "unavailable"],
                  LogoutSucceeded)
    /\ UNCHANGED <<now, dir, consumed, fb>>

\* Logout, for a request naming one of uids and one of sids.
LogoutOf(p, uids, sids) ==
    \/ \E u \in uids, sid \in sids : LogoutInvalidate(p, u, sid)
    \/ LogoutQuery(p)
    \/ LogoutBatch(p)
    \/ LogoutUpdateLastLogout(p)

Logout(p) == LogoutOf(p, Uids, SessionIds \cup {NoSid})

\* ------------------------------------------------------------ OTP login
\* RequestOTP and LoginWithOTP: the OTP engine, as sections 4.1, 4.3 and 5
\* of the specification describe it (a query, then an unconditional update).

MsgOtpInvalid == "OTP invalido"

MsgOtpExpired == "OTP expirado"

\* An OtpRecord that is born used.
OtpDataUsed(uid, email, code, expiresAt) ==
    [uid |-> uid, email |-> email, otp |-> code, used |-> TRUE,
     expires_at |-> expiresAt]

\* The OtpRecord RequestOTP persists.
OtpData(uid, email, code, expiresAt) ==
    [uid |-> uid, email |-> email, otp |-> code, used |-> FALSE,
     expires_at |-> expiresAt]

\* The acknowledgment of RequestOTP.
OtpRequested ==
    [NoRet EXCEPT !.kind = "OTPResponse", !.success = TRUE,
                  !.msg = "OTP enviado"]

\* RequestOTP: resolve the identity of the email.
RequestOTPGetUser(p, email) ==
    /\ pr[p].pc = "idle"
    /\ \E ok \in BOOLEAN :
        LET got == GetUserByEmail(email, ok)
            loc == [Blank EXCEPT !.op = "RequestOTP", !.email = email,
                                 !.uid = got.uid, !.err = got.err]
        IN IF got.err # "" THEN Return(p, loc, Failed("user not found"))
           ELSE Goto(p, loc, "createOtp")
    /\ UNCHANGED <<now, dir, db, consumed, fb>>

\* RequestOTP: a random 6-digit code, persisted with its expiry.
RequestOTPCreate(p, codes) ==
    /\ pr[p].pc = "createOtp"
    /\ \/ /\ db' = db
          /\ Return(p, [pr[p] EXCEPT !.err = "unavailable"],
                    Failed("error storing otp"))
       \/ \E code \in codes, id \in NewDoc(db, "user_otps", OtpIds) :
                  /\ db' = CreateDocument(db, "user_otps", id,
                              OtpData(pr[p].uid, pr[p].email, code,
                                      now + OtpTTL), now)
                  /\ Return(p, [pr[p] EXCEPT !.otp = id], OtpRequested)
    /\ UNCHANGED <<now, dir, consumed, fb>>

\* The records of the email and code, used or not.
LiveOtpsAnyUse(store, email, code) ==
    QueryDocuments(store, "user_otps", [email |-> email, otp |-> code])

\* The unused records of the email and code.
LiveOtps(store, email, code) ==
    QueryDocuments(store, "user_otps",
                   [email |-> email, otp |-> code, used |-> FALSE])

\* Ordered by created_at, ascending, limit 1: an oldest one.
Oldest(store, ids) ==
    {id \in ids : \A other \in ids :
        store["user_otps"][id].created_at
            <= store["user_otps"][other].created_at}

\* Ordered by created_at, descending, limit 1: a most recent one.
MostRecent(store, ids) ==
    {id \in ids : \A other \in ids :
        store["user_otps"][other].created_at
            <= store["user_otps"][id].created_at}

\* An OTP taken as expired only after its expiry time.
OtpExpiredAfter(t, expiresAt) == t > expiresAt

\* now >= expires_at
OtpExpired(t, expiresAt) == t >= expiresAt

\* An earlier call with this email and code has succeeded and no OTP was
\* requested for the email since.
Spent(store, email, code) ==
    \E id \in DOMAIN store["user_otps"] :
        /\ store["user_otps"][id].email = email
        /\ store["user_otps"][id].otp = code
        /\ store["user_otps"][id].used
        /\ \A later \in DOMAIN store["user_otps"] :
              later > id => store["user_otps"][later].email # email

\* ValidateAndConsume: select the record, check its expiry.
OtpQuery(p, email, code) ==
    /\ pr[p].pc = "idle"
    /\ LET loc == [Blank EXCEPT !.op = "LoginWithOTP", !.email = email,
                                !.secret = code, !.at = now,
                                !.late = Spent(db, email, code)]
       IN \/ Return(p, [loc EXCEPT !.err = "unavailable"],
                    Failed("error validating otp"))
          \/ /\ LiveOtps(db, email, code) = {}
             /\ Return(p, [loc EXCEPT !.err = "otp-invalid"],
                       Rejected(MsgOtpInvalid))
          \/ \E id \in MostRecent(db, LiveOtps(db, email, code)) :
               IF OtpExpired(now, db["user_otps"][id].expires_at)
               THEN Return(p, [loc EXCEPT !.err = "otp-expired", !.otp = id],
                           Rejected(MsgOtpExpired))
               ELSE Goto(p, [loc EXCEPT !.otp = id,
                                        !.uid = db["user_otps"][id].uid],
                         "markUsed")
    /\ UNCHANGED <<now, dir, db, consumed, fb>>

\* ValidateAndConsume: mark the record used.
OtpMarkUsed(p) ==
    /\ pr[p].pc = "markUsed"
    /\ \/ /\ db' = db
          /\ consumed' = consumed
          /\ Return(p, [pr[p] EXCEPT !.err = "unavailable"],
                    Failed("error validating otp"))
       \/ /\ db' = UpdateDocument(db, "user_otps", pr[p].otp,
                                  [used |-> TRUE], now)
          /\ consumed' = [consumed EXCEPT ![pr[p].otp] = @ + 1]
          /\ Goto(p, pr[p], "getUser")
    /\ UNCHANGED <<now, dir, fb>>

\* LoginWithOTP: resolve the full identity by the returned user id; the flow
\* goes on with the claims, the token, the session and the last login.
OtpGetUser(p) ==
    /\ pr[p].pc = "getUser"
    /\ \E ok \in BOOLEAN :
        LET got == GetUser(pr[p].uid, ok)
            loc == [pr[p] EXCEPT !.err = got.err]
        IN IF got.err # "" THEN Return(p, loc, Failed("error getting user"))
           ELSE Goto(p, loc, "getUserClaims")
    /\ UNCHANGED <<now, dir, db, consumed, fb>>

RequestOTP(p, emails, codes) ==
    \/ \E e \in emails : RequestOTPGetUser(p, e)
    \/ RequestOTPCreate(p, codes)

LoginWithOTP(p, emails, codes) ==
    \/ \E e \in emails, c \in codes : OtpQuery(p, e, c)
    \/ OtpMarkUsed(p)
    \/ OtpGetUser(p)

\* -------------------------------------------------------- specifications

\* One caller: logins by password and by OTP, one call after the other.
NextLogin ==
    \/ Tick
    \/ DisableUser("u1")
    \/ Login("p1", {"a@x.com", "nobody@x.com"}, Passwords)
    \/ RequestOTP("p1", {"a@x.com", "nobody@x.com"}, {"042817"})
    \/ LoginWithOTP("p1", {"a@x.com", "nobody@x.com"}, Codes)
    \/ IssueSession("p1")

SpecLogin == Init /\ [][NextLogin]_vars

\* Two callers logging in by password at the same time.
NextLoginPair ==
    \/ \E p \in Procs : Login(p, {"a@x.com", "nobody@x.com"}, Passwords)
    \/ \E p \in Procs : IssueSession(p)

SpecLoginPair == Init /\ [][NextLoginPair]_vars

\* Two callers of the OTP engine at the same time.
NextOtpRace ==
    \/ Tick
    \/ RequestOTP("p1", {"a@x.com"}, {"042817"})
    \/ \E p \in Procs : LoginWithOTP(p, {"a@x.com"}, {"042817"})
    \/ \E p \in Procs : IssueSession(p)

SpecOtpRace == Init /\ [][NextOtpRace]_vars

\* One caller: the session operations, one call after the other.
NextSession ==
    \/ Tick
    \/ \E c \in DirClaims : SetCustomClaims("u1", c)
    \/ Login("p1", {"a@x.com"}, {"pw1"})
    \/ IssueSession("p1")
    \/ ValidateSession("p1")
    \/ RefreshSession("p1")
    \/ CheckSession("p1")
    \/ Logout("p1")

SpecSession == Init /\ [][NextSession]_vars

\* Two callers refreshing sessions at the same time.
NextSessionRace ==
    \/ Tick
    \/ Login("p1", {"a@x.com"}, {"pw1"})
    \/ IssueSession("p1")
    \/ \E p \in Procs : RefreshSession(p)
    \/ \E p \in Procs : CheckSession(p)

SpecSessionRace == Init /\ [][NextSessionRace]_vars

\* One caller: password logins that are refused, and the OTP calls.
NextReject ==
    \/ Tick
    \/ DisableUser("u1")
    \/ Login("p1", {"a@x.com", "nobody@x.com"}, {"pw2"})
    \/ RequestOTP("p1", {"a@x.com", "nobody@x.com"}, {"042817"})
    \/ LoginWithOTP("p1", {"a@x.com", "nobody@x.com"}, Codes)
    \/ IssueSession("p1")

SpecReject == Init /\ [][NextReject]_vars

\* One caller: logins and validations of the sessions, while time passes and
\* the claims of the user change in the Directory.
NextValidate ==
    \/ Tick
    \/ \E c \in DirClaims : SetCustomClaims("u1", c)
    \/ Login("p1", {"a@x.com"}, {"pw1"})
    \/ IssueSession("p1")
    \/ ValidateSession("p1")
    \/ CheckSession("p1")

SpecValidate == Init /\ [][NextValidate]_vars

\* One caller: logins and logouts.
NextLogout ==
    \/ Login("p1", {"a@x.com"}, {"pw1"})
    \/ IssueSession("p1")
    \/ Logout("p1")

SpecLogout == Init /\ [][NextLogout]_vars

\* Two callers: one logs in, and validates and refreshes the first session,
\* the other logs the user out of it at any time.
NextRevoke ==
    \/ Tick
    \/ Login("p1", {"a@x.com"}, {"pw1"})
    \/ IssueSession("p1")
    \/ ValidateSessionOf("p1", {1})
    \/ RefreshSessionOf("p1", {1})
    \/ CheckSession("p1")
    \/ LogoutOf("p2", {"u1"}, {1})

SpecRevoke == Init /\ [][NextRevoke]_vars

\* One caller: logins, refreshes and revocations of all the sessions of the
\* user, one call after the other.
NextRefresh ==
    \/ Tick
    \/ Login("p1", {"a@x.com"}, {"pw1"})
    \/ IssueSession("p1")
    \/ RefreshSession("p1")
    \/ CheckSession("p1")
    \/ LogoutOf("p1", {"u1"}, {NoSid})

SpecRefresh == Init /\ [][NextRefresh]_vars

\* One caller commits batches, one after the other.
NextBatch ==
    WriteBatch("p1")

SpecBatch == Init /\ [][NextBatch]_vars

\* One caller logs in while the claims document of the user is set and
\* replaced.
NextClaims ==
    \/ \E d \in ClaimsDocs : StoreUserClaims("u1", d)
    \/ Login("p1", {"a@x.com"}, {"pw1"})
    \/ IssueSession("p1")

SpecClaims == Init /\ [][NextClaims]_vars

\* One caller logs in by password, as either user or as nobody, with a right
\* or a wrong password, while the first user may be disabled.
NextVerify ==
    \/ DisableUser("u1")
    \/ Login("p1", Emails, Passwords)
    \/ IssueSession("p1")

SpecVerify == Init /\ [][NextVerify]_vars

\* -------------------------------------------------------- initialisation

\* The failures of the body before the app is made, lines 50-95.
CredErrors == {"failed to read credentials file", "missing credentials",
               "invalid JSON in credentials",
               "project_id not found in credentials"}

\* return firestoreClient / return authClient
ClientReturned == [NoRet EXCEPT !.kind = "client"]

\* The body of the once.Do ends with initErr set to e; the Once is done and
\* the caller that ran it returns initErr.
InitBodyEnds(p, e) ==
    /\ fb' = [fb EXCEPT !.initErr = e, !.once = "done"]
    /\ Return(p, [pr[p] EXCEPT !.err = e], Done(e))

\* InitFirebaseFromEnv, line 29: once.Do runs the body for the first caller,
\* makes a caller that arrives while it runs wait, and returns at once when
\* it is done; line 111 then returns initErr.
InitEnter(p) ==
    /\ pr[p].pc = "idle"
    /\ LET loc == [Blank EXCEPT !.op = "InitFirebaseFromEnv"]
       IN CASE fb.once = "new" ->
                 /\ fb' = [fb EXCEPT !.once = "running", !.runs = @ + 1]
                 /\ Goto(p, loc, "loadCredentials")
            [] fb.once = "running" ->
                 /\ fb' = fb
                 /\ Goto(p, loc, "onceWait")
            [] OTHER ->
                 /\ fb' = fb
                 /\ Return(p, [loc EXCEPT !.err = fb.initErr],
                           Done(fb.initErr))
    /\ UNCHANGED <<now, dir, db, consumed>>

\* A caller blocked in once.Do goes on when the body has returned.
InitWait(p) ==
    /\ pr[p].pc = "onceWait"
    /\ fb.once = "done"
    /\ fb' = fb
    /\ Return(p, [pr[p] EXCEPT !.err = fb.initErr], Done(fb.initErr))
    /\ UNCHANGED <<now, dir, db, consumed>>

\* The body, lines 30-95: the credentials and their project_id.
InitLoadCredentials(p) ==
    /\ pr[p].pc = "loadCredentials"
    /\ \/ \E e \in CredErrors : InitBodyEnds(p, e)
       \/ /\ fb' = fb
          /\ Goto(p, pr[p], "newApp")
    /\ UNCHANGED <<now, dir, db, consumed>>

\* The body, lines 97-105: firebase.NewApp.
InitNewApp(p) ==
    /\ pr[p].pc = "newApp"
    /\ \/ InitBodyEnds(p, "failed to initialize Firebase app")
       \/ /\ fb' = [fb EXCEPT !.app = TRUE]
          /\ Goto(p, pr[p], "firestoreClient")
    /\ UNCHANGED <<now, dir, db, consumed>>

\* initializeClients, lines 118-121: the Firestore client.
InitFirestoreClient(p) ==
    /\ pr[p].pc = "firestoreClient"
    /\ \/ InitBodyEnds(p, "failed to create Firestore client")
       \/ /\ fb' = [fb EXCEPT !.firestoreClient = TRUE]
          /\ Goto(p, pr[p], "authClient")
    /\ UNCHANGED <<now, dir, db, consumed>>

\* initializeClients, lines 124-129: the Auth client, then line 108.
InitAuthClient(p) ==
    /\ pr[p].pc = "authClient"
    /\ \/ InitBodyEnds(p, "failed to create Auth client")
       \/ /\ fb' = [fb EXCEPT !.authClient = TRUE, !.initErr = "",
                                !.once = "done"]
          /\ Return(p, pr[p], Done(""))
    /\ UNCHANGED <<now, dir, db, consumed>>

InitFirebaseFromEnv(p) ==
    \/ InitEnter(p)
    \/ InitWait(p)
    \/ InitLoadCredentials(p)
    \/ InitNewApp(p)
    \/ InitFirestoreClient(p)
    \/ InitAuthClient(p)

\* GetFirestoreClient: panics on a nil client.  The read of the variable is
\* not synchronised with the body of the once.Do: it sees the pointer as it
\* is at the time of the read.
GetFirestoreClient(p) ==
    /\ pr[p].pc = "idle"
    /\ Return(p, [Blank EXCEPT !.op = "GetFirestoreClient"],
              IF fb.firestoreClient THEN ClientReturned ELSE Panicked)
    /\ UNCHANGED <<now, dir, db, consumed, fb>>

\* GetAuthClient: panics on a nil client.
GetAuthClient(p) ==
    /\ pr[p].pc = "idle"
    /\ Return(p, [Blank EXCEPT !.op = "GetAuthClient"],
              IF fb.authClient THEN ClientReturned ELSE Panicked)
    /\ UNCHANGED <<now, dir, db, consumed, fb>>

\* Two callers, from the start of the program: they initialise and ask for
\* the clients at any time.
NextBoot ==
    \/ \E p \in Procs : InitFirebaseFromEnv(p)
    \/ \E p \in Procs : GetFirestoreClient(p)
    \/ \E p \in Procs : GetAuthClient(p)

SpecBoot == InitBoot /\ [][NextBoot]_vars

\* ---------------------------------------------------------------- claims

\* C1 (as claimed).  OTP at-most-once use: a LoginWithOTP call made after a
\* call with the same email and code has succeeded, with no OTP requested
\* for the email in between, does not succeed.
C1_OtpAtMostOnce ==
    \A p \in Procs :
        (ret[p].op = "LoginWithOTP" /\ ret[p].late) => ~ret[p].success

\* C2 (as claimed).  OTP at-most-once under concurrency: whatever the
\* interleaving of two ValidateAndConsume calls, no OtpRecord is consumed by
\* more than one successful call.
C2_ConsumedOnce ==
    \A id \in OtpIds : consumed[id] <= 1

\* What ValidateSession returned for a session record it had read.
Validated(p) ==
    /\ ret[p].op = "ValidateSession"
    /\ ret[p].read # NoSession
    /\ ret[p].from # "idle"

C4_ExpiryNeverDecreases ==
    [][\A id \in DOMAIN db["user_sessions"] :
          ("expires_at" \in DOMAIN db["user_sessions"][id]
              /\ "expires_at" \in DOMAIN db'["user_sessions"][id])
          => db'["user_sessions"][id].expires_at
                >= db["user_sessions"][id].expires_at]_vars

\* C5 (as claimed).  Lazy expiry: once ValidateSession has failed with
\* "session expired", the stored record has active = false.
C5_ExpiredLeftInactive ==
    \A p \in Procs :
        (ret[p].op = "ValidateSession" /\ ret[p].err = "session expired")
        => ~db["user_sessions"][ret[p].read.SessionID].active

\* C6.  The revocation of all the sessions of a user is one all-or-nothing
\* batch: the step that commits it either goes on with every session matched
\* by the query inactive, or returns a single error with the store unchanged.
C6_RevokeAllAtomic ==
    [][\A p \in Procs :
          (pr[p].pc = "batchWrite" /\ pr'[p].pc # "batchWrite")
          => \/ /\ pr'[p].pc = "updateLastLogout"
                /\ \A id \in pr[p].matched :
                      ~db'["user_sessions"][id].active
             \/ /\ pr'[p].pc = "idle"
                /\ ret'[p].kind = "error"
                /\ ret'[p].err = "error invalidating user sessions"
                /\ db' = db]_vars

\* C6, witness: a batch over two matched sessions has been committed.
C6_Witness ==
    \E p \in Procs :
        /\ pr[p].pc = "updateLastLogout"
        /\ Cardinality(pr[p].matched) = 2
        /\ \A id \in pr[p].matched : ~db["user_sessions"][id].active

\* The response and the error a call returned.
Returned(r) ==
    <<r.kind, r.success, r.msg, r.user, r.token, r.sid, r.expires, r.claims,
      r.err>>

\* Login returned because no identity resolved for the email.
NoSuchUser(r) ==
    r.op = "Login" /\ r.from = "idle" /\ r.cause = "user-not-found"

\* Login returned because the identity is disabled.
DisabledUser(r) ==
    r.op = "Login" /\ r.from = "idle" /\ r.cause = ""

\* Login returned because the password did not match the stored hash.
WrongPassword(r) ==
    r.op = "Login" /\ r.from = "verifyPassword" /\ r.cause = ""

\* LoginWithOTP returned because of a bad or an expired OTP.
BadOtp(r) ==
    r.op = "LoginWithOTP" /\ r.cause \in {"otp-invalid", "otp-expired"}

\* C7 (as claimed).  Login returns the same response and error for an email
\* that resolves to no identity as for a password that does not match.
C7_NoUserEnumeration ==
    \A p, q \in Procs :
        (NoSuchUser(ret[p]) /\ WrongPassword(ret[q]))
        => Returned(ret[p]) = Returned(ret[q])

\* C8.  Expected authentication rejections are results, not errors: an
\* unknown email, a disabled identity, a wrong password, a bad or an expired
\* OTP each give a LoginResponse with success = false and a message, a nil
\* error, no token and no session id.
C8_RejectionsAreResults ==
    \A p \in Procs :
        (\/ NoSuchUser(ret[p])
         \/ DisabledUser(ret[p])
         \/ WrongPassword(ret[p])
         \/ BadOtp(ret[p]))
        => /\ ret[p].kind = "LoginResponse"
           /\ ~ret[p].success
           /\ ret[p].msg # ""
           /\ ret[p].err = ""
           /\ ret[p].token = NoToken
           /\ ret[p].sid = NoSid

\* C8, witness: a Login rejected for a wrong password.
C8_Witness ==
    \E p \in Procs :
        /\ WrongPassword(ret[p])
        /\ ret[p].kind = "LoginResponse"
        /\ ret[p].arg[1] = "a@x.com"

\* The steps of Login the claim names: identity lookup, credential fetch,
\* token minting, session creation.
InfrastructureSteps ==
    {"idle", "verifyPassword", "createCustomToken", "createSession"}

\* C9 (as claimed).  Whenever the Directory or the Document Store is
\* unreachable at one of these steps, Login returns an error and no
\* LoginResponse.
C9_InfrastructureErrorsAreErrors ==
    \A p \in Procs :
        (/\ ret[p].op = "Login"
         /\ ret[p].from \in InfrastructureSteps
         /\ ret[p].cause = "unavailable")
        => ret[p].kind = "error"

\* C10 (as claimed).  The step at which ValidateSession succeeds returns the
\* claims the Directory holds for the user of the session at that time.
C10_ReturnsDirectoryClaims ==
    [][\A p \in Procs :
          (pr[p].op = "ValidateSession" /\ ret'[p].kind = "SessionInfo")
          => ret'[p].claims = dir'[ret'[p].session.UID].claims]_vars

\* C10 (amended).  ValidateSession, on success, returns the user id and the
\* email of the stored session record, never queries the Directory and
\* returns no claims, whatever claims the Directory holds for the user.
C10_ReturnsStoredSessionOnly ==
    \A p \in Procs :
        (ret[p].op = "ValidateSession" /\ ret[p].kind = "SessionInfo")
        => /\ ret[p].session.UID
                = db["user_sessions"][ret[p].session.SessionID].uid
           /\ ret[p].session.Email
                = db["user_sessions"][ret[p].session.SessionID].email
           /\ ret[p].claims = "none"
           /\ ret[p].token = NoToken

\* C10, witness: ValidateSession succeeded for a user whose claims in the
\* Directory have been set.
C10_Witness ==
    \E p \in Procs :
        /\ ret[p].op = "ValidateSession"
        /\ ret[p].kind = "SessionInfo"
        /\ dir[ret[p].session.UID].claims = "admin"

\* C11.  An OTP validated at or after its expiry fails with OtpExpired and
\* its record keeps used = false; a call goes on to mark a record used only
\* if it read the clock before the expiry of the record, so that, time never
\* going back, no later call on an expired record succeeds.
C11_ExpiredOtpStaysUnused ==
    \A p \in Procs :
        /\ (ret[p].op = "LoginWithOTP" /\ ret[p].cause = "otp-expired")
           => /\ ret[p].kind = "LoginResponse"
              /\ ~ret[p].success
              /\ ret[p].msg = MsgOtpExpired
              /\ ret[p].at >= db["user_otps"][ret[p].otp].expires_at
              /\ ~db["user_otps"][ret[p].otp].used
              /\ consumed[ret[p].otp] = 0
        /\ pr[p].pc = "markUsed"
           => pr[p].at < db["user_otps"][pr[p].otp].expires_at
        /\ (ret[p].op = "LoginWithOTP" /\ ret[p].success)
           => ret[p].at < db["user_otps"][ret[p].otp].expires_at

\* C11, witness: a LoginWithOTP refused for an expired OTP, after the expiry
\* time of the record.
C11_Witness ==
    \E p \in Procs :
        /\ ret[p].op = "LoginWithOTP"
        /\ ret[p].cause = "otp-expired"
        /\ now > db["user_otps"][ret[p].otp].expires_at

\* C12.  Session records are only ever revoked: no step of Login,
\* ValidateSession, RefreshSession or Logout, however interleaved, removes a
\* session record or changes its active flag from false to true.
C12_RevokedNeverRestored ==
    [][\A id \in DOMAIN db["user_sessions"] :
          /\ id \in DOMAIN db'["user_sessions"]
          /\ ("active" \in DOMAIN db["user_sessions"][id]
                 /\ ~db["user_sessions"][id].active)
             => /\ "active" \in DOMAIN db'["user_sessions"][id]
                /\ ~db'["user_sessions"][id].active]_vars

\* C12, witness: a RefreshSession has written the expiry of a session that a
\* Logout had made inactive in between, and the session is inactive.
C12_Witness ==
    \E p \in Procs :
        /\ ret[p].op = "RefreshSession"
        /\ ret[p].kind = "SessionInfo"
        /\ ret[p].read.Active
        /\ ~db["user_sessions"][ret[p].read.SessionID].active
        /\ db["user_sessions"][ret[p].read.SessionID].expires_at
              = ret[p].session.ExpiresAt

\* C13.  RefreshSession validates first and returns the failure of the
\* validation as it is, without writing an expiry: for an absent session the
\* error of the read, for an expired one "session expired", for an inactive
\* one "session inactive".  When the validation succeeds it stores the time
\* it reads after the validation plus the lifetime of a session as
\* expires_at, and returns the session with that expiry.
C13_RefreshValidatesFirst ==
    \A p \in Procs :
        ret[p].op = "RefreshSession" =>
            LET r == ret[p]
                sid == r.arg[3]
                docs == db["user_sessions"]
            IN /\ r.kind \in {"SessionInfo", "error"}
               /\ r.kind = "SessionInfo" =>
                     /\ r.read.Active
                     /\ r.at <= r.read.ExpiresAt
                     /\ docs[sid].expires_at = r.session.ExpiresAt
                     /\ r.at + SessionTTL <= r.session.ExpiresAt
                     /\ r.session.ExpiresAt <= now + SessionTTL
                     /\ r.session = [r.read EXCEPT
                                        !.ExpiresAt = r.session.ExpiresAt]
               /\ r.kind = "error" =>
                     \/ /\ r.from = "idle"
                        /\ r.err = r.cause
                        /\ r.cause \in {NotFound("user_sessions", sid),
                                        "unavailable"}
                        /\ r.cause # "unavailable"
                              => sid \notin DOMAIN docs
                     \/ /\ r.err = "session expired"
                        /\ r.at > r.read.ExpiresAt
                        /\ docs[sid].expires_at = r.read.ExpiresAt
                     \/ /\ r.err = "session inactive"
                        /\ ~r.read.Active
                        /\ r.at <= r.read.ExpiresAt
                        /\ docs[sid].expires_at = r.read.ExpiresAt
                     \/ /\ r.err = "error refreshing session"
                        /\ r.cause = "unavailable"
                        /\ docs[sid].expires_at = r.read.ExpiresAt

\* C13, witness: a RefreshSession has extended the expiry of a session.
C13_Witness ==
    \E p \in Procs :
        /\ ret[p].op = "RefreshSession"
        /\ ret[p].kind = "SessionInfo"
        /\ ret[p].session.ExpiresAt > ret[p].read.ExpiresAt
        /\ db["user_sessions"][ret[p].arg[3]].expires_at
              = ret[p].session.ExpiresAt

\* C14.  Logout is idempotent: a Logout that names a session leaves it
\* inactive whatever it was before, also when it was inactive already, and
\* then returns success; Logout returns an error only when the store fails.
C14_LogoutIdempotent ==
    \A p \in Procs :
        /\ (pr[p].op = "Logout" /\ pr[p].sid # NoSid)
           => Inactive(db, pr[p].sid)
        /\ ret[p].op = "Logout" =>
              /\ ret[p].kind \in {"LogoutResponse", "error"}
              /\ ret[p].kind = "LogoutResponse" =>
                    /\ ret[p].success
                    /\ ret[p].err = ""
                    /\ ret[p].arg[3] # NoSid => Inactive(db, ret[p].arg[3])
              /\ ret[p].kind = "error" =>
                    ret[p].cause \in {"unavailable",
                                      "failed to commit batch operations"}

\* C14, witness: a Logout of a session that was inactive already has
\* returned success.
C14_Witness ==
    \E p \in Procs :
        /\ ret[p].op = "Logout"
        /\ ret[p].kind = "LogoutResponse"
        /\ ret[p].late
        /\ Inactive(db, ret[p].arg[3])

\* The uid has no session on record as active.
NoActiveSession(uid) ==
    \A id \in DOMAIN db["user_sessions"] :
        LET doc == db["user_sessions"][id]
        IN ~(/\ {"uid", "active"} \subseteq DOMAIN doc
             /\ doc.uid = uid
             /\ doc.active)

\* C15.  The revocation of all the sessions of a user who has no active
\* session commits no batch and writes nothing: its query step leaves the
\* store as it is and goes on to the end of Logout, which returns success
\* without a write to the sessions (or the query itself fails, the store
\* being unreachable).
C15_RevokeNoneWritesNothing ==
    [][\A p \in Procs :
          /\ (/\ pr[p].pc = "invalidateAll"
              /\ pr'[p].pc # "invalidateAll"
              /\ NoActiveSession(pr[p].uid))
             => /\ db' = db
                /\ \/ /\ pr'[p].pc = "updateLastLogout"
                      /\ pr'[p].matched = {}
                   \/ /\ pr'[p].pc = "idle"
                      /\ ret'[p].kind = "error"
                      /\ ret'[p].cause = "unavailable"
          /\ (pr[p].pc = "updateLastLogout" /\ pr'[p].pc # "updateLastLogout")
             => /\ db'["user_sessions"] = db["user_sessions"]
                /\ ret'[p].kind = "LogoutResponse"
                /\ ret'[p].success
                /\ ret'[p].err = ""]_vars

\* C15, witness: the revocation found no active session of a user who has
\* sessions on record, and Logout is about to end.
C15_Witness ==
    \E p \in Procs :
        /\ pr[p].pc = "updateLastLogout"
        /\ pr[p].matched = {}
        /\ pr[p].sid = NoSid
        /\ AllSessionsOf(db, pr[p].uid) # {}
        /\ NoActiveSession(pr[p].uid)

\* C16.  ValidateSession on a session it read as inactive, at a time that is
\* not after its expiry, fails with "session inactive" and writes nothing;
\* nor does the read of the session write anything.
C16_InactiveFailsWithoutWrite ==
    [][\A p \in Procs :
          /\ (/\ pr[p].op = "ValidateSession"
              /\ pr[p].pc = "checkExpiry"
              /\ pr'[p].pc # "checkExpiry"
              /\ ~pr[p].session.Active
              /\ now <= pr[p].session.ExpiresAt)
             => /\ pr'[p].pc = "idle"
                /\ ret'[p].kind = "error"
                /\ ret'[p].err = "session inactive"
                /\ db' = db
          /\ (pr[p].pc = "idle" /\ pr'[p].op = "ValidateSession")
             => db' = db]_vars

\* C16, witness: ValidateSession has failed with "session inactive" on a
\* session before its expiry.
C16_Witness ==
    \E p \in Procs :
        /\ ret[p].op = "ValidateSession"
        /\ ret[p].err = "session inactive"
        /\ ~ret[p].read.Active
        /\ ret[p].at < ret[p].read.ExpiresAt
        /\ Inactive(db, ret[p].read.SessionID)

\* C17.  ValidateSession on a session id of which the store holds no record
\* fails at its read with a not-found failure that names the collection and
\* the id (or with the failure of an unreachable store), and writes nothing.
C17_AbsentFailsWithoutWrite ==
    [][\A p \in Procs :
          (/\ pr[p].pc = "idle"
           /\ ret'[p] # ret[p]
           /\ ret'[p].op = "ValidateSession"
           /\ ret'[p].arg[3] \notin DOMAIN db["user_sessions"])
          => /\ pr'[p].pc = "idle"
             /\ ret'[p].kind = "error"
             /\ ret'[p].err = ret'[p].cause
             /\ ret'[p].err \in {NotFound("user_sessions", ret'[p].arg[3]),
                                 "unavailable"}
             /\ db' = db]_vars

\* C17, witness: ValidateSession has failed with not-found on an id that
\* has no record while another session has one.
C17_Witness ==
    \E p \in Procs :
        /\ ret[p].op = "ValidateSession"
        /\ ret[p].kind = "error"
        /\ ret[p].err = NotFound("user_sessions", ret[p].arg[3])
        /\ ret[p].arg[3] \notin DOMAIN db["user_sessions"]
        /\ db["user_sessions"] # <<>>

\* A caller has just committed a batch with BatchWrite.
Committed(p) ==
    /\ pr[p].pc = "idle"
    /\ ret'[p] # ret[p]
    /\ ret'[p].op = "BatchWrite"

\* C18 (as claimed).  A batch of three operations whose third targets the
\* collection "archive", which does not exist, fails as a whole with one
\* error, and the store is left as it was.
C18_ArchiveCollectionFails ==
    [][\A p \in Procs :
          (/\ Committed(p)
           /\ ret'[p].batch[3].Collection = "archive"
           /\ db["archive"] = <<>>)
          => /\ ret'[p].kind = "error"
             /\ db' = db]_vars

\* C18 (amended).  A batch is all or nothing: a batch of three operations
\* whose third is of the unsupported type "archive" fails with the single
\* error of the unsupported type and leaves the store as it was, the first
\* two operations included; and any batch that fails leaves the store as it
\* was.
C18_BatchAllOrNothing ==
    [][\A p \in Procs :
          Committed(p)
          => /\ ret'[p].batch[3].Type = "archive"
                  => /\ ret'[p].kind = "error"
                     /\ ret'[p].err = "unsupported batch operation type"
                     /\ db' = db
             /\ ret'[p].kind = "error" => db' = db
             /\ ret'[p].kind \in {"error", "nil"}
             /\ ret'[p].kind = "nil"
                  => db' = ApplyBatch(db, ret'[p].batch, now)]_vars

\* C18, witness: a batch has failed for its third operation, of the type
\* "archive", after two operations that would have created a record and
\* updated it; no analytics record is in the store.
C18_Witness ==
    \E p \in Procs :
        /\ ret[p].op = "BatchWrite"
        /\ ret[p].kind = "error"
        /\ ret[p].err = "unsupported batch operation type"
        /\ ret[p].batch[1].Type = "create"
        /\ ret[p].batch[2].Type = "update"
        /\ ret[p].batch[3].Type = "archive"
        /\ db["analytics"] = <<>>

\* The session can be used now: it is stored, active and not expired.
Usable(sid) ==
    /\ sid \in DOMAIN db["user_sessions"]
    /\ db["user_sessions"][sid].active
    /\ ~Expired(now, db["user_sessions"][sid].expires_at)

\* C19.  createSession stores a new session record, active and with
\* expires_at one lifetime after the time of the call, under an id that no
\* session had, leaves every other session as it was, and the login returns
\* that id and that expiry; so the sessions of two logins of one user have
\* distinct ids and the second login takes nothing from the first.
C19_CreateSessionFresh ==
    [][\A p \in Procs :
          /\ (pr[p].pc = "createSession" /\ pr'[p].pc = "updateLastLogin")
              => LET id == pr'[p].sid
                     old == db["user_sessions"]
                     new == db'["user_sessions"]
                 IN /\ id # NoSid
                    /\ id \notin DOMAIN old
                    /\ DOMAIN new = DOMAIN old \cup {id}
                    /\ \A other \in DOMAIN old : new[other] = old[other]
                    /\ new[id].active = TRUE
                    /\ new[id].expires_at = now + SessionTTL
                    /\ new[id].uid = pr[p].uid
                    /\ new[id].email = pr[p].email
                    /\ new[id].created_at = now
                    /\ pr'[p].expiresAt = now + SessionTTL
          /\ (pr[p].pc = "createSession" /\ pr'[p].pc = "idle")
              => /\ ret'[p].kind = "error"
                 /\ db' = db
          /\ (pr[p].pc = "updateLastLogin" /\ pr'[p].pc = "idle")
              => /\ ret'[p].success
                 /\ ret'[p].sid = pr[p].sid
                 /\ ret'[p].expires = pr[p].expiresAt
                 /\ db'["user_sessions"] = db["user_sessions"]]_vars

\* C19, witness: the user has logged in twice, the two sessions are usable
\* at the same time, and ValidateSession has just succeeded on the first.
C19_Witness ==
    /\ Usable(1) /\ Usable(2)
    /\ db["user_sessions"][1].uid = "u1"
    /\ db["user_sessions"][2].uid = "u1"
    /\ Validated("p1")
    /\ ret["p1"].kind = "SessionInfo"
    /\ ret["p1"].session.SessionID = 1
    /\ ret["p1"].at = now

\* C20.  A login that has created its session returns success whether the
\* update of the last login succeeded or failed: success = true, the token,
\* the session it created and its expiry, and no error.
C20_LastLoginBestEffort ==
    \A p \in Procs :
        (ret[p].op = "Login" /\ ret[p].from = "updateLastLogin")
        => /\ ret[p].cause \in {"", "unavailable"}
           /\ ret[p].kind = "LoginResponse"
           /\ ret[p].success
           /\ ret[p].err = ""
           /\ ret[p].token # NoToken
           /\ ret[p].token.uid = ret[p].user
           /\ ret[p].sid \in DOMAIN db["user_sessions"]
           /\ db["user_sessions"][ret[p].sid].uid = ret[p].user

\* C20, witness: a login has succeeded although the update of the last login
\* failed; nothing is recorded of the activity of the user.
C20_Witness ==
    \E p \in Procs :
        /\ ret[p].op = "Login"
        /\ ret[p].from = "updateLastLogin"
        /\ ret[p].cause = "unavailable"
        /\ ret[p].success
        /\ ret[p].user \notin DOMAIN db["user_activity"]

\* The stored claims of the uid, or the minimal claims when there is no
\* claims record or the record has no claims mapping.
StoredClaimsOrDefault(store, uid) ==
    IF uid \in DOMAIN store["user_claims"]
       /\ "claims" \in DOMAIN store["user_claims"][uid]
    THEN store["user_claims"][uid].claims
    ELSE DefaultClaims

\* C21 (as claimed).  Login takes the minimal claims when the user has no
\* claims record or a record without a claims mapping, and otherwise exactly
\* the stored claims; the token and the response carry the claims it took.
C21_StoredClaimsOrDefault ==
    [][\A p \in Procs :
          /\ (pr[p].op = "Login" /\ pr[p].pc = "getUserClaims"
                /\ pr'[p].pc = "createCustomToken")
              => pr'[p].claims = StoredClaimsOrDefault(db, pr[p].uid)
          /\ (pr[p].op = "Login" /\ pr[p].pc = "updateLastLogin"
                /\ pr'[p].pc = "idle")
              => /\ ret'[p].claims = pr[p].claims
                 /\ ret'[p].token.claims = pr[p].claims]_vars

\* C22.  RequestOTP for an email that resolves to no identity fails with
\* the user-not-found failure and creates no document; any RequestOTP that
\* fails leaves the store as it was; one that returns success has added
\* exactly one OtpRecord, of that email, unused, with one of the 6-digit
\* codes and expires_at one OTP lifetime after now, and changed no other.
C22_RequestOtpCreatesOne ==
    [][\A p \in Procs :
          /\ (pr[p].pc = "idle" /\ ret'[p] # ret[p]
                /\ ret'[p].op = "RequestOTP")
              => /\ ret'[p].kind = "error"
                 /\ ret'[p].err = "user not found"
                 /\ db' = db
          /\ (pr[p].pc = "idle" /\ pr'[p].pc = "createOtp")
              => /\ \E u \in Uids : EmailOf(u) = pr'[p].email
                 /\ db' = db
          /\ (pr[p].pc = "createOtp" /\ pr'[p].pc = "idle")
              => LET old == db["user_otps"]
                     new == db'["user_otps"]
                     id == ret'[p].otp
                 IN IF ret'[p].kind = "OTPResponse"
                    THEN /\ ret'[p].success
                         /\ id \notin DOMAIN old
                         /\ DOMAIN new = DOMAIN old \cup {id}
                         /\ \A other \in DOMAIN old : new[other] = old[other]
                         /\ \A c \in Collections \ {"user_otps"} :
                                db'[c] = db[c]
                         /\ new[id].email = pr[p].email
                         /\ EmailOf(new[id].uid) = pr[p].email
                         /\ new[id].used = FALSE
                         /\ new[id].otp \in Codes
                         /\ new[id].created_at = now
                         /\ new[id].expires_at = now + OtpTTL
                    ELSE /\ ret'[p].kind = "error"
                         /\ db' = db]_vars

\* C22, witness: a second RequestOTP for the email has returned success; its
\* record is in the store, unused, beside the record of the first.
C22_Witness ==
    \E p \in Procs :
        /\ ret[p].op = "RequestOTP"
        /\ ret[p].kind = "OTPResponse"
        /\ ret[p].otp = 2
        /\ 1 \in DOMAIN db["user_otps"]
        /\ db["user_otps"][1].email = ret[p].arg[1]
        /\ db["user_otps"][2].email = ret[p].arg[1]
        /\ ~db["user_otps"][2].used

\* The unused OtpRecords of the email and code in the store.
UnusedOtps(email, code) ==
    {id \in DOMAIN db["user_otps"] :
        /\ db["user_otps"][id].email = email
        /\ db["user_otps"][id].otp = code
        /\ ~db["user_otps"][id].used}

\* C23.  LoginWithOTP selects a most recent of the unused OtpRecords of the
\* email and code; when there is none, for a wrong code, a used code or an
\* unknown email alike, it writes nothing and returns one and the same
\* rejection, the invalid-OTP one (or the error of an unreachable store).
C23_OtpInvalidUniform ==
    [][\A p \in Procs :
          /\ (pr[p].pc = "idle" /\ ret'[p] # ret[p]
                /\ ret'[p].op = "LoginWithOTP"
                /\ UnusedOtps(ret'[p].arg[1], ret'[p].arg[2]) = {})
              => /\ db' = db
                 /\ \/ /\ ret'[p].cause = "otp-invalid"
                       /\ Returned(ret'[p]) = Returned(Rejected(MsgOtpInvalid))
                    \/ /\ ret'[p].cause = "unavailable"
                       /\ ret'[p].kind = "error"
          /\ (pr[p].pc = "idle" /\ ret'[p] # ret[p]
                /\ ret'[p].op = "LoginWithOTP"
                /\ ret'[p].cause = "otp-invalid")
              => UnusedOtps(ret'[p].arg[1], ret'[p].arg[2]) = {}
          /\ (pr[p].pc = "idle" /\ pr'[p].pc = "markUsed")
              => LET live == UnusedOtps(pr'[p].email, pr'[p].secret)
                 IN /\ pr'[p].otp \in live
                    /\ \A other \in live :
                          db["user_otps"][other].created_at
                             <= db["user_otps"][pr'[p].otp].created_at]_vars

\* C23, witness: LoginWithOTP has rejected as invalid a code that an earlier
\* call had consumed; the used record is in the store.
C23_Witness ==
    \E p \in Procs :
        /\ ret[p].op = "LoginWithOTP"
        /\ ret[p].cause = "otp-invalid"
        /\ ret[p].late
        /\ ret[p].msg = MsgOtpInvalid
        /\ \E id \in DOMAIN db["user_otps"] :
              /\ db["user_otps"][id].used
              /\ db["user_otps"][id].email = ret[p].arg[1]
              /\ db["user_otps"][id].otp = ret[p].arg[2]

\* The most recently created OtpRecords of the email.
LatestOtps(email) ==
    LET mine == {id \in DOMAIN db["user_otps"] :
                    db["user_otps"][id].email = email}
    IN {id \in mine : \A other \in mine :
            db["user_otps"][other].created_at
                <= db["user_otps"][id].created_at}

\* The code is that of a most recent OtpRecord of the email, which is unused
\* and not yet expired.
FreshOtp(email, code) ==
    \E id \in LatestOtps(email) :
        /\ db["user_otps"][id].otp = code
        /\ ~db["user_otps"][id].used
        /\ now < db["user_otps"][id].expires_at

\* C24.  A LoginWithOTP called with the email and the code of the most
\* recent OtpRecord of the email, unused and before its expiry, is not
\* rejected: it consumes a record and, unless the store or the Directory
\* fails it, returns success = true with a token and a session id under
\* which an active session record of the user is stored.
C24_OtpLoginEndToEnd ==
    [][\A p \in Procs :
          /\ (/\ pr[p].pc = "idle"
              /\ \/ pr'[p] # pr[p] /\ pr'[p].op = "LoginWithOTP"
                 \/ ret'[p] # ret[p] /\ ret'[p].op = "LoginWithOTP")
              => LET email == IF pr'[p].pc = "idle" THEN ret'[p].arg[1]
                              ELSE pr'[p].email
                     code == IF pr'[p].pc = "idle" THEN ret'[p].arg[2]
                             ELSE pr'[p].secret
                 IN FreshOtp(email, code)
                    => \/ /\ pr'[p].pc = "markUsed"
                          /\ EmailOf(pr'[p].uid) = email
                       \/ /\ pr'[p].pc = "idle"
                          /\ ret'[p].kind = "error"
                          /\ ret'[p].cause = "unavailable"
          /\ (pr[p].op = "LoginWithOTP" /\ pr[p].pc # "idle"
                /\ pr'[p].pc = "idle")
              => \/ /\ ret'[p].kind = "error"
                    /\ ret'[p].cause = "unavailable"
                 \/ /\ pr[p].pc = "updateLastLogin"
                    /\ ret'[p].kind = "LoginResponse"
                    /\ ret'[p].success
                    /\ ret'[p].err = ""
                    /\ ret'[p].token # NoToken
                    /\ ret'[p].token.uid = pr[p].uid
                    /\ ret'[p].sid # NoSid
                    /\ ret'[p].sid \in DOMAIN db'["user_sessions"]
                    /\ db'["user_sessions"][ret'[p].sid].active
                    /\ db'["user_sessions"][ret'[p].sid].uid = pr[p].uid
                    /\ db'["user_otps"][pr[p].otp].used]_vars

\* C24, witness: after two requests for the email, LoginWithOTP has
\* succeeded on the record of the second, and its session is stored active;
\* the record of the first request is still unused.
C24_Witness ==
    \E p \in Procs :
        /\ ret[p].op = "LoginWithOTP"
        /\ ret[p].success
        /\ ret[p].otp = 2
        /\ db["user_otps"][2].used
        /\ ~db["user_otps"][1].used
        /\ db["user_otps"][1].email = db["user_otps"][2].email
        /\ ret[p].sid \in DOMAIN db["user_sessions"]
        /\ db["user_sessions"][ret[p].sid].active

\* The fields of a document that a step has added or changed.
ChangedFields(old, new) ==
    {f \in DOMAIN new : f \notin DOMAIN old \/ new[f] # old[f]}

\* C25.  An update merges: whatever the step, a stored session keeps every
\* field it had, and the fields that change are those of one update, of the
\* invalidation (active, ended_at, updated_at) or of the refresh (expires_at,
\* updated_at); an invalidation, by ValidateSession or by Logout, keeps
\* expires_at, and the update of a refresh keeps the active flag.
C25_UpdateMerges ==
    [][\A id \in DOMAIN db["user_sessions"] :
          LET old == db["user_sessions"][id]
              new == db'["user_sessions"][id]
          IN /\ id \in DOMAIN db'["user_sessions"]
             /\ DOMAIN old \subseteq DOMAIN new
             /\ \/ ChangedFields(old, new)
                      \subseteq {"active", "ended_at", "updated_at"}
                \/ ChangedFields(old, new)
                      \subseteq {"expires_at", "updated_at"}
             /\ \A p \in Procs :
                  (pr[p].pc = "updateSessionExpiration" /\ pr'[p] # pr[p])
                  => /\ ChangedFields(old, new)
                          \subseteq {"expires_at", "updated_at"}
                     /\ id = pr[p].sid \/ new = old
             /\ \A p \in Procs :
                  (/\ pr'[p] # pr[p]
                   /\ \/ pr[p].pc = "invalidateExpired"
                      \/ pr[p].op = "Logout"
                      \/ pr'[p].op = "Logout")
                  => /\ ChangedFields(old, new)
                          \subseteq {"active", "ended_at", "updated_at"}
                     /\ ("active" \in DOMAIN new /\ new # old)
                          => ~new.active]_vars

\* C25, witness: a session that was refreshed and then invalidated holds the
\* expiry of the refresh, the flag of the invalidation and the creation time
\* it was given.
C25_Witness ==
    /\ 1 \in DOMAIN db["user_sessions"]
    /\ SessionFields \subseteq DOMAIN db["user_sessions"][1]
    /\ ~db["user_sessions"][1].active
    /\ "ended_at" \in DOMAIN db["user_sessions"][1]
    /\ db["user_sessions"][1].created_at = 0
    /\ db["user_sessions"][1].expires_at = 1 + SessionTTL

\* The caller p of Login takes a step from the label from to the label to.
LoginStep(p, from, to) ==
    /\ pr[p].pc = from
    /\ pr'[p].pc = to
    /\ pr'[p] # pr[p] \/ ret'[p] # ret[p]
    /\ IF from = "idle" THEN IF to = "idle" THEN ret'[p].op = "Login"
                                              ELSE pr'[p].op = "Login"
       ELSE pr[p].op = "Login"

\* C26.  A Login call goes through its steps in order: it passes the first
\* only with an identity resolved for its email and found not disabled, the
\* next only with the password that matches the stored hash of that
\* identity, and creates its session after them, for that identity; the
\* session collection changes at that step only, and the call that has made
\* it returns success, so a call that returns success = false or an error
\* has left the session collection as it was.
C26_SessionOnlyAfterVerifiedLogin ==
    [][\A p \in Procs :
          /\ \A to \in {"verifyPassword", "getUserClaims",
                         "createCustomToken", "createSession",
                         "updateLastLogin"} :
                (pr'[p].pc = to /\ pr[p].pc # to /\ pr'[p].op = "Login")
                => /\ pr[p].pc =
                        (CASE to = "verifyPassword" -> "idle"
                           [] to = "getUserClaims" -> "verifyPassword"
                           [] to = "createCustomToken" -> "getUserClaims"
                           [] to = "createSession" -> "createCustomToken"
                           [] OTHER -> "createSession")
                   /\ to # "verifyPassword"
                        => /\ pr[p].op = "Login"
                           /\ pr'[p].uid = pr[p].uid
                           /\ pr'[p].email = pr[p].email
                           /\ pr'[p].secret = pr[p].secret
          /\ LoginStep(p, "idle", "verifyPassword")
              => /\ pr'[p].uid \in Uids
                 /\ EmailOf(pr'[p].uid) = pr'[p].email
                 /\ ~dir[pr'[p].uid].disabled
          /\ LoginStep(p, "verifyPassword", "getUserClaims")
              => /\ pr[p].uid \in DOMAIN db["user_credentials"]
                 /\ db["user_credentials"][pr[p].uid].password_hash
                        = HashPassword(pr[p].secret)
          /\ LoginStep(p, "createSession", "updateLastLogin")
              => /\ pr'[p].sid \notin DOMAIN db["user_sessions"]
                 /\ pr'[p].sid \in DOMAIN db'["user_sessions"]
                 /\ db'["user_sessions"][pr'[p].sid].uid = pr[p].uid
          /\ (\E from \in {"idle", "verifyPassword", "getUserClaims",
                            "createCustomToken", "createSession",
                            "updateLastLogin"} : LoginStep(p, from, "idle"))
              => /\ db'["user_sessions"] = db["user_sessions"]
                 /\ ret'[p].success <=> pr[p].pc = "updateLastLogin"
          /\ db'["user_sessions"] # db["user_sessions"]
              => \E q \in Procs :
                    LoginStep(q, "createSession", "updateLastLogin")]_vars

\* C26, witness: a login with a wrong password has just been rejected, after
\* a verified login of the same user had created a session; the session
\* collection holds that session only.
C26_Witness ==
    \E p \in Procs :
        /\ ret[p].op = "Login"
        /\ ret[p].kind = "LoginResponse"
        /\ ~ret[p].success
        /\ ret[p].from = "verifyPassword"
        /\ DOMAIN db["user_sessions"] = {1}
        /\ EmailOf(db["user_sessions"][1].uid) = ret[p].arg[1]

\* The session is stored and cannot be used now: it is inactive, or its
\* expires_at has passed.
Unusable(sid) ==
    /\ sid \in DOMAIN db["user_sessions"]
    /\ \/ ~db["user_sessions"][sid].active
       \/ Expired(now, db["user_sessions"][sid].expires_at)

\* C27 (as claimed).  A session that is inactive or past its stored
\* expires_at is never again one on which ValidateSession succeeds (active
\* and not past its expires_at), whatever the calls and the times of their
\* reads and writes.
C27_UnusableForever ==
    [][\A sid \in SessionIds :
          Unusable(sid)
          => ~(/\ sid \in DOMAIN db'["user_sessions"]
               /\ db'["user_sessions"][sid].active
               /\ ~Expired(now', db'["user_sessions"][sid].expires_at))]_vars

\* C28 (as claimed).  A step of Logout called for the user u changes no
\* session record whose uid is another than u, whatever the session id of
\* the request.
C28_LogoutOwnSessionsOnly ==
    [][\A p \in Procs :
          (/\ pr'[p] # pr[p]
           /\ pr[p].op = "Logout" \/ pr'[p].op = "Logout")
          => LET u == IF pr[p].op = "Logout" THEN pr[p].uid ELSE pr'[p].uid
             IN \A sid \in DOMAIN db["user_sessions"] :
                   ("uid" \in DOMAIN db["user_sessions"][sid]
                      /\ db["user_sessions"][sid].uid # u)
                   => /\ sid \in DOMAIN db'["user_sessions"]
                      /\ db'["user_sessions"][sid]
                            = db["user_sessions"][sid]]_vars

\* C29 (as claimed).  A step of a Logout called with the id of a session of
\* the user of the request, active at the call, leaves active every other
\* active session of that user.
C29_LogoutKeepsOtherSessions ==
    [][\A p \in Procs :
          (/\ pr'[p] # pr[p]
           /\ pr[p].op = "Logout" \/ pr'[p].op = "Logout")
          => LET call == IF pr[p].op = "Logout" THEN pr[p] ELSE pr'[p]
             IN (/\ call.sid \in DOMAIN db["user_sessions"]
                 /\ SessionFields
                       \subseteq DOMAIN db["user_sessions"][call.sid]
                 /\ db["user_sessions"][call.sid].uid = call.uid
                 /\ ~call.late)
                => \A other \in DOMAIN db["user_sessions"] \ {call.sid} :
                      (/\ {"uid", "active"}
                             \subseteq DOMAIN db["user_sessions"][other]
                       /\ db["user_sessions"][other].uid = call.uid
                       /\ db["user_sessions"][other].active)
                      => db'["user_sessions"][other].active]_vars

\* C30 (as claimed).  Every document of user_sessions is a complete session:
\* it has uid, email, active, created_at and expires_at.
C30_SessionsComplete ==
    \A id \in DOMAIN db["user_sessions"] :
        SessionFields \subseteq DOMAIN db["user_sessions"][id]

\* C31 (as claimed).  ValidateSession returns a session or an error, and
\* never panics, whatever the session id and the state of the store.
C31_ValidateSessionTotal ==
    \A p \in Procs :
        ret[p].op = "ValidateSession"
        => ret[p].kind \in {"SessionInfo", "error"}

\* C32.  When a Login returns success = true, the store holds a session
\* record under the session id returned, of the user returned and of the
\* email of that user, active, with expires_at equal to the ExpiresAt
\* returned; and the claims returned are those of the token returned, which
\* is a token of that user.
C32_LoginAgreesWithStore ==
    [][\A p \in Procs :
          (/\ pr[p].op = "Login"
           /\ pr'[p].pc = "idle"
           /\ pr[p].pc # "idle"
           /\ ret'[p].success)
          => LET r == ret'[p]
                 sessions == db'["user_sessions"]
             IN /\ r.kind = "LoginResponse"
                /\ r.sid \in DOMAIN sessions
                /\ sessions[r.sid].uid = r.user
                /\ sessions[r.sid].email = EmailOf(r.user)
                /\ sessions[r.sid].active = TRUE
                /\ sessions[r.sid].expires_at = r.expires
                /\ r.token # NoToken
                /\ r.token.uid = r.user
                /\ r.claims = r.token.claims]_vars

\* C32, witness: a Login has returned success with the claims stored for the
\* user, which are not the minimal ones, and its session is in the store.
C32_Witness ==
    \E p \in Procs :
        /\ ret[p].op = "Login"
        /\ ret[p].success
        /\ ret[p].claims = "admin"
        /\ ret[p].token.claims = "admin"
        /\ ret[p].sid \in DOMAIN db["user_sessions"]
        /\ db["user_sessions"][ret[p].sid].active
        /\ db["user_sessions"][ret[p].sid].expires_at = ret[p].expires

\* C33.  A batch with an operation of a type other than create, update and
\* delete, at whatever position, returns the error of the unsupported type
\* and leaves the whole store as it was: none of its operations is applied,
\* those before the unsupported one no more than those after it.
C33_UnsupportedTypeAppliesNothing ==
    [][\A p \in Procs :
          (/\ Committed(p)
           /\ \E i \in DOMAIN ret'[p].batch :
                 ret'[p].batch[i].Type \notin {"create", "update", "delete"})
          => /\ ret'[p].kind = "error"
             /\ ret'[p].err = "unsupported batch operation type"
             /\ db' = db]_vars

\* C33, witness: a batch has failed for its second operation, of an
\* unsupported type, between two creates; the store holds no analytics
\* record.
C33_Witness ==
    \E p \in Procs :
        /\ ret[p].op = "BatchWrite"
        /\ ret[p].kind = "error"
        /\ ret[p].batch[1].Type = "create"
        /\ ret[p].batch[2].Type = "archive"
        /\ ret[p].batch[3].Type = "create"
        /\ db["analytics"] = <<>>
        /\ db["archive"] = <<>>

\* C34 (as claimed).  A Login takes the claims that SetCustomClaims has
\* attached to its user in the Directory: the claims it fetches are those,
\* and they are the claims of the token and of the response.
C34_LoginUsesDirectoryClaims ==
    [][\A p \in Procs :
          /\ (LoginStep(p, "getUserClaims", "createCustomToken")
                /\ dir[pr[p].uid].claims # "none")
              => pr'[p].claims = dir[pr[p].uid].claims
          /\ LoginStep(p, "updateLastLogin", "idle")
              => /\ ret'[p].claims = pr[p].claims
                 /\ ret'[p].token.claims = pr[p].claims]_vars

\* The login_count on record for the uid, 0 when there is none.
LoginCount(store, uid) ==
    IF uid \in DOMAIN store["user_activity"]
       /\ "login_count" \in DOMAIN store["user_activity"][uid]
    THEN store["user_activity"][uid].login_count
    ELSE 0

\* C35 (as claimed).  A successful Login whose update of the last login
\* reached the store has increased the login_count of its user by exactly 1.
C35_LoginCountCounts ==
    [][\A p \in Procs :
          (LoginStep(p, "updateLastLogin", "idle") /\ ret'[p].cause = "")
          => LoginCount(db', pr[p].uid) = LoginCount(db, pr[p].uid) + 1]_vars

\* C36 (as claimed).  A Logout that returns an error has changed no session
\* record: the session it names, active when it was called, is active still.
C36_LogoutFailsCleanly ==
    [][\A p \in Procs :
          (/\ pr[p].op = "Logout"
           /\ pr[p].pc # "idle"
           /\ pr'[p].pc = "idle"
           /\ ret'[p].kind = "error"
           /\ pr[p].sid \in DOMAIN db'["user_sessions"]
           /\ SessionFields \subseteq DOMAIN db'["user_sessions"][pr[p].sid]
           /\ ~pr[p].late)
          => db'["user_sessions"][pr[p].sid].active]_vars

\* C37 (as claimed).  The body of the initialisation is entered once at
\* most, every InitFirebaseFromEnv returns the same result, which is the one
\* of that single run, and GetFirestoreClient and GetAuthClient return a
\* client when the initialisation has succeeded and panic otherwise.
C37_InitialisedOnce ==
    [][/\ fb'.runs <= 1
       /\ \A p \in Procs :
             ret'[p].op = "InitFirebaseFromEnv"
             => /\ fb'.once = "done"
                /\ ret'[p].err = fb'.initErr
                /\ ret'[p].kind \in {"nil", "error"}
       /\ \A p \in Procs :
             (/\ pr[p].pc = "idle"
              /\ ret'[p] # ret[p]
              /\ ret'[p].op \in {"GetFirestoreClient", "GetAuthClient"})
             => IF fb.once = "done" /\ fb.initErr = ""
                THEN ret'[p].kind = "client"
                ELSE ret'[p].kind = "panic"]_vars

====
